---------------------------- MODULE Spec2Model ----------------------------
(***************************************************************************)
(* A model of semanager.py: the sliding-window RateLimiter and the two     *)
(* handlers of SpicetifyManager that call it before talking to the GitHub  *)
(* API (check_for_updates, search_marketplace), with the handlers that add *)
(* and remove the custom repositories search_marketplace goes through.     *)
(*                                                                         *)
(* Time is a non-negative integer number of ticks.  time.time() reads the  *)
(* variable clock.  Time passes at any point: between calls, between the   *)
(* statements of wait() and inside time.sleep(d), which returns when d     *)
(* ticks have elapsed or later.  wait() takes no lock, and is modelled     *)
(* with one action for each step at which another thread can run: line 35  *)
(* loads self.calls, filters the list it loaded and assigns the result;    *)
(* line 39 loads self.calls, reads the clock and appends.  The position of *)
(* each caller is in pc.                                                   *)
(*                                                                         *)
(* Two more parts of SpicetifyManager are modelled on their own.  The      *)
(* first is the Extensions tab (load_config, populate_extensions,          *)
(* apply_changes) with every handler that reads or writes the config file  *)
(* or the extensions folder (refresh_all, restore_configuration,           *)
(* save_config_from_editor, apply_selected_theme, apply_custom_apps,       *)
(* install_marketplace_extension); strings are sequences of character      *)
(* codes, the parser interpolates as configparser does, os.listdir        *)
(* returns the files in any order, and the folder the table lists          *)
(* (self.extensions_dir) is told from the folder beside the file at        *)
(* config_path.  The config files of the model do not set                  *)
(* extensions_folder.  The second is the encrypted GitHub token            *)
(* (save_github_token, get_github_token).  The manager's specifications    *)
(* start when __init__ has ended, its start-up check_for_updates included. *)
(***************************************************************************)
EXTENDS Integers, Sequences, FiniteSets

VARIABLES
    constructed,         \* RateLimiter.__init__ has run
    calls_per_interval,  \* RateLimiter.calls_per_interval
    interval,            \* RateLimiter.interval
    calls,               \* RateLimiter.calls, a list of timestamps
    clock,               \* the value time.time() returns
    pc,                  \* position of each caller
    now,                 \* local variable now of wait(), per caller
    sleep_time,          \* local variable sleep_time of wait(), per caller
    wake_at,             \* instant at which the caller's time.sleep is due to return
    held,                \* the list object the caller has loaded from self.calls
    stamp,               \* the value time.time() returned on line 39, per caller
    task,                \* the handler each caller is running
    repos_left,          \* iterations left in search_marketplace's loop
    custom_repos,        \* len(SpicetifyManager.custom_repos)
    api_requests,        \* number of requests.get calls sent to api.github.com
    cur,                 \* index in history of the caller's current wait()
    history,             \* one record per wait() call, in order of entry
    config_loaded,       \* SpicetifyManager.config_loaded
    file_extensions,     \* lines of `extensions` in the file at config_path
    config_extensions,   \* the option `extensions` of SpicetifyManager.config:
                         \* <<>> when it is not set, <<value>> when it is
    extensions,          \* SpicetifyManager.extensions, a list of names
    extensions_dir,      \* the .js files of the folder self.extensions_dir names
    config_dir,          \* the folder Extensions beside the file at config_path:
                         \* the one self.extensions_dir names, or another
    search_text,         \* text of extension_search_input
    sort_by,             \* current text of sort_combo
    extensions_table,    \* rows of extensions_table: name and check state
    apply_button,        \* apply_button is enabled
    apply_pc,            \* position of the GUI thread in apply_changes
    apply_result,        \* how far the last apply_changes got: "written", then
                         \* the way the command ended, then "returned" or
                         \* "failed"; "none" when apply_changes has not written
                         \* since the config was loaded
    token_input,         \* text of token_input
    encrypted_token,     \* SpicetifyManager.encrypted_token
    encryption_key,      \* SpicetifyManager.encryption_key
    last_get             \* what the last get_github_token did

vars == <<constructed, calls_per_interval, interval, calls, clock, pc, now,
          sleep_time, wake_at, held, stamp, task, repos_left, custom_repos, api_requests,
          cur, history, config_loaded, file_extensions, config_extensions,
          extensions, extensions_dir, config_dir, search_text, sort_by,
          extensions_table, apply_button, apply_pc, apply_result,
          token_input, encrypted_token, encryption_key, last_get>>

limiter == <<constructed, calls_per_interval, interval>>
app     == <<task, repos_left, custom_repos, api_requests>>
waiting == <<calls, clock, pc, now, sleep_time, wake_at, held, stamp, cur,
             history>>
gui     == <<config_loaded, file_extensions, config_extensions, extensions,
             extensions_dir, config_dir, search_text, sort_by,
             extensions_table, apply_button, apply_pc, apply_result>>
auth    == <<token_input, encrypted_token, encryption_key, last_get>>
manager == <<gui, auth>>

-----------------------------------------------------------------------------
(* Bounds of the model. *)

MaxCapacity == 3
MaxInterval == 3
MaxTime == 4
MaxCalls == 4
MaxCustomRepos == 1

NoTime == 0 - 1

ThreadIds == {1, 2}
Callers == DOMAIN pc

\* Arguments RateLimiter.__init__ is called with that satisfy the data model
\* (positive capacity, positive window).
ValidConfigs == (1..MaxCapacity) \X (1..MaxInterval)
\* Any integer arguments, as __init__ accepts them.
CtorArgs == ((0 - 1)..MaxCapacity) \X ((0 - 1)..MaxInterval)

-----------------------------------------------------------------------------
(* Pure parts of RateLimiter.wait. *)

\* Variants of the three computations below, each with one slip.
\* The operands of the age swapped: nothing is ever dropped.
RetainedSwapped(n, ts) == SelectSeq(ts, LAMBDA t : t - n < interval)
\* The budget check off by one: one admission too many.
BudgetExhaustedStrict == Len(calls) > calls_per_interval
\* The budget check off by one the other way: one admission too few.
BudgetExhaustedEarly == Len(calls) + 1 >= calls_per_interval
\* The age of the oldest timestamp taken for the time left to wait.
SleepTimeAge(th) == now[th] - calls[1]
\* The time left computed from the newest timestamp.
SleepTimeNewest(th) == interval - (now[th] - calls[Len(calls)])

\* A timestamp exactly interval old kept.
RetainedInclusive(n, ts) == SelectSeq(ts, LAMBDA t : n - t <= interval)

\* line 35: [t for t in self.calls if now - t < self.interval]
Retained(n, ts) == SelectSeq(ts, LAMBDA t : n - t < interval)

\* line 36: len(self.calls) >= self.calls_per_interval
BudgetExhausted == Len(calls) >= calls_per_interval

\* line 37: self.interval - (now - self.calls[0])
SleepTime(th) == interval - (now[th] - calls[1])

Min(S) == CHOOSE x \in S : \A y \in S : x <= y

Sleepers == {th \in Callers : pc[th] = "sleeping"}

Admitted == {i \in DOMAIN history : history[i].admitted # NoTime}


\* The record history keeps of one wait() call.
NewCall(t) == [entered |-> t, retained |-> NoTime, oldest |-> NoTime,
               sleeps |-> 0, sleep_time |-> 0, admitted |-> NoTime,
               raised |-> FALSE, overlap |-> FALSE]

\* The positions of a caller inside wait().
WaitPositions == {"L35", "L35iter", "L35store", "L36", "L37", "L38",
                  "sleeping", "L39", "L39time", "L39append"}

\* The calls of wait() in progress: entered, and neither returned nor raised.
InProgress == {cur[th] : th \in {o \in Callers : pc[o] \in WaitPositions}}

\* No list object loaded.
NoList == [ref |-> "none", list |-> <<>>]

\* The list object caller th has loaded: self.calls itself, or a list that
\* was self.calls when it was loaded and has been replaced since.
HeldList(th) == IF held[th].ref = "self" THEN calls ELSE held[th].list

Note(th, field, value) == [history EXCEPT ![cur[th]][field] = value]

-----------------------------------------------------------------------------
(* The Extensions tab: strings are sequences of character codes. *)

\* The separator of the `extensions` value (lines 136 and 644).
Pipe == 124

\* The ASCII characters str.strip() removes from both ends.
WhiteSpace == {9, 10, 11, 12, 13, 28, 29, 30, 31, 32}

Max(S) == CHOOSE x \in S : \A y \in S : y <= x

Range(s) == {s[i] : i \in DOMAIN s}

\* str.lower() on one character and on a string.
LowerChar(c) == IF c \in 65..90 THEN c + 32 ELSE c
Lower(s) == [i \in DOMAIN s |-> LowerChar(s[i])]

\* `sub in s` on strings.
Contains(sub, s) ==
    \E i \in 0..(Len(s) - Len(sub)) : SubSeq(s, i + 1, i + Len(sub)) = sub

\* a < b on strings: the order of the first differing character, a proper
\* prefix comes first.
StrLess(a, b) ==
    \E i \in 1..Len(b) :
        /\ i <= Len(a) + 1
        /\ \A j \in 1..(i - 1) : a[j] = b[j]
        /\ (i = Len(a) + 1 \/ a[i] < b[i])

\* str.strip()
Strip(s) ==
    LET kept == {i \in DOMAIN s : s[i] \notin WhiteSpace}
    IN  IF kept = {} THEN <<>> ELSE SubSeq(s, Min(kept), Max(kept))

\* str.split('|'): the pieces between the separators, empty ones included.
RECURSIVE Split(_)
Split(s) ==
    LET seps == {i \in DOMAIN s : s[i] = Pipe}
    IN  IF seps = {}
          THEN <<s>>
          ELSE <<SubSeq(s, 1, Min(seps) - 1)>>
               \o Split(SubSeq(s, Min(seps) + 1, Len(s)))

\* '|'.join(names)
RECURSIVE Join(_)
Join(names) ==
    IF names = <<>> THEN <<>>
    ELSE IF Len(names) = 1 THEN names[1]
    ELSE names[1] \o <<Pipe>> \o Join(Tail(names))

\* line 136: [ext.strip() for ext in extensions_line.split('|') if ext.strip()]
ParseExtensions(extensions_line) ==
    LET pieces == Split(extensions_line)
    IN  SelectSeq([i \in DOMAIN pieces |-> Strip(pieces[i])],
                  LAMBDA ext : ext # <<>>)

\* The character that starts an interpolation in a stored value.
Percent == 37

\* str.replace('%%', r): every '%%' pair, found from the left, becomes r.
RECURSIVE ReplacePairs(_, _)
ReplacePairs(value, r) ==
    IF value = <<>> THEN <<>>
    ELSE IF Len(value) >= 2 /\ value[1] = Percent /\ value[2] = Percent
      THEN r \o ReplacePairs(SubSeq(value, 3, Len(value)), r)
      ELSE <<value[1]>> \o ReplacePairs(Tail(value), r)

\* The length of the reference '%(name)s' value starts with, 0 when it
\* starts with none: the name is one character or more, none of them ')'.
KeyLength(value) ==
    LET closing == {i \in DOMAIN value : value[i] = 41}
    IN  IF /\ Len(value) >= 5
           /\ value[1] = Percent
           /\ value[2] = 40
           /\ closing # {}
           /\ Min(closing) >= 4
           /\ Min(closing) < Len(value)
           /\ value[Min(closing) + 1] = 115
          THEN Min(closing) + 1
          ELSE 0

\* re.sub of the references '%(name)s' by '', from the left.
RECURSIVE RemoveKeys(_)
RemoveKeys(value) ==
    IF value = <<>> THEN <<>>
    ELSE IF KeyLength(value) > 0
      THEN RemoveKeys(SubSeq(value, KeyLength(value) + 1, Len(value)))
      ELSE <<value[1]>> \o RemoveKeys(Tail(value))

\* config.get on a stored value (line 135) raises an InterpolationError:
\* the parser of line 66 interpolates, and a '%' must be followed by '%' or
\* by a reference '(name)s' to an option that exists.  The config files of
\* the model hold no option a reference could name, so every reference
\* raises as well.
InterpolationError(value) == Percent \in Range(ReplacePairs(value, <<>>))

\* config.set with a value (line 644) raises ValueError: a '%' is left
\* when the '%%' pairs and the references are taken out.
SetError(value) == Percent \in Range(RemoveKeys(ReplacePairs(value, <<>>)))

\* config.read (line 134) on a file whose [AdditionalOptions] section holds
\* the lines of `extensions` in file, none or more: the last one sets the
\* option in the parser, white space around the value removed; with no
\* line the parser keeps the option as it had it, set or not.
ReadFile(file, config) ==
    IF file = <<>> THEN config ELSE <<Strip(file[Len(file)])>>

\* The stored value config.get (line 135) starts from: the value of the
\* option, or the fallback '' when the option is not set.
StoredValue(config) == IF config = <<>> THEN <<>> ELSE config[1]

\* config.get (line 135) on a stored value that interpolates: '%%' is read
\* as '%'.
ReadValue(value) == ReplacePairs(value, <<Percent>>)

\* The names of the extension files: a.js, Ab.js.
FileA == <<97, 46, 106, 115>>
FileAb == <<65, 98, 46, 106, 115>>

\* The .js files the extensions folder holds when the program starts,
\* with the time each was last modified.
ExtensionsDir == { [name |-> FileAb, last_modified |-> 2] }

\* os.listdir (line 614) returns the files in an order of its own, which
\* nothing keeps the same from one call to the next: every sequence that
\* holds each file of the folder once.
Listings(files) ==
    {listing \in [1..Cardinality(files) -> files] :
        \A i, j \in 1..Cardinality(files) : listing[i] = listing[j] => i = j}

\* The extensions the marketplace list offers, and the time a file written
\* by install_marketplace_extension is last modified.
Installable == {FileA}
InstallTime == 2

\* The folder after a file was written to it (line 899): the file is new
\* or replaces the one of that name.
Installed(files, name, time) ==
    {file \in files : file.name # name}
        \cup {[name |-> name, last_modified |-> time]}

\* The folder Extensions beside the file at config_path (lines 139-140,
\* 898): it is the folder self.extensions_dir names, or it does not exist,
\* or it is another folder, with files of its own.
SameDir == [is |-> "same", files |-> {}]
MissingDir == [is |-> "missing", files |-> {}]
OtherDir(files) == [is |-> "other", files |-> files]

\* The folders Extensions that lie beside the config files of other
\* folders, into which the user can point the program: none, or an empty
\* one.
ElsewhereDirs == {MissingDir, OtherDir({})}

\* The files in the folder Extensions of a backup archive.
Backups == { {}, {[name |-> FileA, last_modified |-> InstallTime]} }

\* A folder after the files of an archive were extracted over it
\* (line 1111): each one is new or replaces the one of that name.
Extracted(files, backup) ==
    {file \in files : \A other \in backup : other.name # file.name}
        \cup backup

\* lines 137-142 of load_config, in a config that does not set
\* extensions_folder: self.extensions_dir is the folder Extensions beside
\* the file at config_path, created empty when it does not exist.  dir
\* holds the files of the folder self.extensions_dir named before.
LoadedDir(dir, beside) == IF beside.is = "same" THEN dir ELSE beside.files

\* Texts the user types into the search box: "", "A.".
SearchTexts == {<<>>, <<65, 46>>}

\* The entries of sort_combo (line 529).
SortOrders == {"Name", "Date Modified"}

\* The lines of `extensions` the config file holds when the program
\* starts: none, "a.js", " a.js | Ab.js ".
StoredFiles ==
    { <<>>,
      <<FileA>>,
      << <<32>> \o FileA \o <<32, 124, 32>> \o FileAb \o <<32>> >> }

\* The lines of `extensions` in a file the user restores from a backup or
\* points the program to: none, "a.js|%" and "a.js|%%".
OtherFiles ==
    { <<>>,
      << FileA \o <<124, Percent>> >>,
      << FileA \o <<124, Percent, Percent>> >> }

\* The lines of `extensions` in a text the user saves from the editor:
\* none, "a.js|%".
EditorFiles == { <<>>, << FileA \o <<124, Percent>> >> }

\* lines 578-582: x sorts before y.  Sorting by date is in reverse.
SortsBefore(by, x, y) ==
    IF by = "Name" THEN StrLess(Lower(x.name), Lower(y.name))
    ELSE IF by = "Date Modified" THEN x.last_modified > y.last_modified
    ELSE FALSE

\* list.sort: a stable sort, each element goes after the ones that do not
\* sort after it.
RECURSIVE Sorted(_, _)
Sorted(by, s) ==
    IF s = <<>> THEN <<>>
    ELSE LET front == Sorted(by, SubSeq(s, 1, Len(s) - 1))
             x == s[Len(s)]
             k == Cardinality({i \in DOMAIN front :
                                  ~SortsBefore(by, x, front[i])})
         IN  SubSeq(front, 1, k) \o <<x>> \o SubSeq(front, k + 1, Len(front))

\* lines 574-576: the extensions whose name contains the search text.
Filtered(listing, text) ==
    IF Lower(text) # <<>>
      THEN SelectSeq(listing,
                     LAMBDA ext : Contains(Lower(text), Lower(ext.name)))
      ELSE listing

\* The body of populate_extensions (lines 572-596): the rows of the table
\* for a listing of the folder, a search text, a sort order and a value of
\* self.extensions.
Rows(listing, text, by, exts) ==
    LET all_extensions == Sorted(by, Filtered(listing, text))
    IN  [row \in DOMAIN all_extensions |->
            [name |-> all_extensions[row].name,
             checked |-> all_extensions[row].name \in Range(exts)]]

\* What populate_extensions can leave in the table: the rows for one of the
\* listings of the folder.
Tables(files, text, by, exts) ==
    {Rows(listing, text, by, exts) : listing \in Listings(files)}

\* lines 637-642: the names of the checked rows, in the order of the rows.
Selected(table) ==
    LET checked == SelectSeq(table, LAMBDA item : item.checked)
    IN  [row \in DOMAIN checked |-> checked[row].name]

\* The extensions left out of the table by the search text.
Hidden(files, text) ==
    {file.name : file \in {file \in files :
        Lower(text) # <<>> /\ ~Contains(Lower(text), Lower(file.name))}}

\* The Extensions tab of a manager that has not been used: a config file
\* with no `extensions` line, an empty folder.
InitGuiIdle ==
    /\ config_loaded = TRUE
    /\ file_extensions = <<>>
    /\ config_extensions = <<>>
    /\ extensions = <<>>
    /\ extensions_dir = {}
    /\ config_dir = SameDir
    /\ search_text = <<>>
    /\ sort_by = "Name"
    /\ extensions_table = <<>>
    /\ apply_button = TRUE
    /\ apply_pc = "idle"
    /\ apply_result = "none"

-----------------------------------------------------------------------------
(* The GitHub token. *)

\* Passwords the user enters in the dialog; "" is an empty entry.
Passwords == {"", "hunter2", "letmein"}
\* Texts of the token field; "" is an empty field.
Tokens == {"", "ghp_1", "ghp_2"}

\* encryption_key = None
NoKey == [kdf |-> "None", password |-> ""]
\* encrypted_token = ""
NoToken == [key |-> NoKey, plain |-> ""]

\* derive_key_from_password (lines 1032-1038): a key determined by the
\* password, different passwords give different keys.
derive_key_from_password(password) ==
    [kdf |-> "pbkdf2_hmac", password |-> password]

\* encrypt_token (lines 1040-1043) with key as self.encryption_key.
encrypt_token(key, token) == [key |-> key, plain |-> token]

\* decrypt_token (lines 1045-1048): Fernet.decrypt raises unless the key is
\* the one the token was encrypted with.
Decrypts(key, encrypted) == encrypted # NoToken /\ encrypted.key = key
decrypt_token(key, encrypted) == encrypted.plain

NoGet == [prompted |-> FALSE, outcome |-> "none", token |-> ""]

\* get_github_token (lines 1014-1030), called with encrypted as
\* self.encrypted_token and key as self.encryption_key; the user answers
\* the password dialog, when it is shown, with password and ok.  The
\* password is asked for when a token is stored and no key is held.
Prompted(encrypted, key) == encrypted # NoToken /\ key = NoKey

\* self.encryption_key when get_github_token has returned: the key derived
\* from the password is kept whether or not it decrypts the token.
KeyAfterGet(encrypted, key, password, ok) ==
    IF Prompted(encrypted, key) /\ ok /\ password # ""
      THEN derive_key_from_password(password)
      ELSE key

\* What get_github_token did and returned.
LastGet(encrypted, key, password, ok) ==
    LET used == KeyAfterGet(encrypted, key, password, ok)
    IN  IF encrypted = NoToken
          THEN [prompted |-> FALSE, outcome |-> "no_token", token |-> ""]
        ELSE IF used = NoKey
          THEN [prompted |-> TRUE, outcome |-> "no_password", token |-> ""]
        ELSE IF Decrypts(used, encrypted)
          THEN [prompted |-> Prompted(encrypted, key), outcome |-> "token",
                token |-> decrypt_token(used, encrypted)]
          ELSE [prompted |-> Prompted(encrypted, key),
                outcome |-> "decrypt_failed", token |-> ""]

get_github_token(password, ok) ==
    /\ encryption_key' =
          KeyAfterGet(encrypted_token, encryption_key, password, ok)
    /\ last_get' = LastGet(encrypted_token, encryption_key, password, ok)
    /\ UNCHANGED <<token_input, encrypted_token>>

\* No token is stored and none is being entered.
InitAuthIdle ==
    /\ token_input = ""
    /\ encrypted_token = NoToken
    /\ encryption_key = NoKey
    /\ last_get = NoGet

-----------------------------------------------------------------------------
(* Initial states. *)

\* No call of wait() yet, no handler running.
InitWaiting ==
    /\ calls = <<>>
    /\ clock = 0
    /\ now = [th \in DOMAIN pc |-> 0]
    /\ sleep_time = [th \in DOMAIN pc |-> 0]
    /\ wake_at = [th \in DOMAIN pc |-> 0]
    /\ held = [th \in DOMAIN pc |-> NoList]
    /\ stamp = [th \in DOMAIN pc |-> 0]
    /\ task = [th \in DOMAIN pc |-> "none"]
    /\ repos_left = [th \in DOMAIN pc |-> 0]
    /\ api_requests = 0
    /\ cur = [th \in DOMAIN pc |-> 0]
    /\ history = <<>>

\* The limiter and the handlers when SpicetifyManager.__init__ has ended:
\* the start-up check_for_updates of line 82 has called wait() once, which
\* has recorded its timestamp, and has sent its first request, and its
\* second one unless something raised in between.
InitStarted ==
    /\ calls = <<0>>
    /\ clock = 0
    /\ now = [th \in DOMAIN pc |-> 0]
    /\ sleep_time = [th \in DOMAIN pc |-> 0]
    /\ wake_at = [th \in DOMAIN pc |-> 0]
    /\ held = [th \in DOMAIN pc |-> NoList]
    /\ stamp = [th \in DOMAIN pc |-> 0]
    /\ task = [th \in DOMAIN pc |-> "none"]
    /\ repos_left = [th \in DOMAIN pc |-> 0]
    /\ api_requests \in {1, 2}
    /\ cur = [th \in DOMAIN pc |-> 1]
    /\ history = <<[NewCall(0) EXCEPT !.retained = 0, !.admitted = 0]>>

\* The token when SpicetifyManager.__init__ has ended, with encrypted
\* stored in the settings (line 60): the start-up check_for_updates has
\* called get_github_token (line 1128), and the user has answered the
\* password dialog if it was shown.
InitAuthStarted(encrypted) ==
    /\ token_input = ""
    /\ encrypted_token = encrypted
    /\ \E password \in Passwords, ok \in BOOLEAN :
          /\ encryption_key = KeyAfterGet(encrypted, NoKey, password, ok)
          /\ last_get = LastGet(encrypted, NoKey, password, ok)

InitCommon ==
    /\ InitWaiting
    /\ custom_repos = 0
    /\ InitGuiIdle
    /\ InitAuthIdle

\* A limiter constructed with valid arguments, used by a single caller.
Init ==
    /\ pc = [th \in {1} |-> "idle"]
    /\ constructed = TRUE
    /\ \E cfg \in ValidConfigs : calls_per_interval = cfg[1] /\ interval = cfg[2]
    /\ InitCommon

\* The application when SpicetifyManager.__init__ has ended: the limiter of
\* line 64 in its model-sized stand-in configurations, custom_repos as the
\* settings store held it (line 59), no token stored, and the start-up
\* check_for_updates done.
InitApp ==
    /\ pc = [th \in {1} |-> "idle"]
    /\ constructed = TRUE
    /\ \E cfg \in ValidConfigs : calls_per_interval = cfg[1] /\ interval = cfg[2]
    /\ InitStarted
    /\ custom_repos \in 0..MaxCustomRepos
    /\ InitGuiIdle
    /\ InitAuthStarted(NoToken)

\* Before RateLimiter.__init__ has run.
InitCtor ==
    /\ pc = [th \in {1} |-> "idle"]
    /\ constructed = FALSE
    /\ calls_per_interval = 0
    /\ interval = 0
    /\ InitCommon

-----------------------------------------------------------------------------
(* RateLimiter.__init__ *)

Construct(c, i) ==
    /\ ~constructed
    /\ constructed' = TRUE
    /\ calls_per_interval' = c
    /\ interval' = i
    /\ calls' = <<>>
    /\ UNCHANGED <<clock, pc, now, sleep_time, wake_at, held, stamp, cur,
                   history>>
    /\ UNCHANGED app
    /\ UNCHANGED manager

-----------------------------------------------------------------------------
(* The clock. *)

\* Time passes, to an instant t of the set instants or to an instant at
\* which a time.sleep is due to return: at any point of wait(), between its
\* statements and during its sleep, which may so last longer than asked.
Tick(instants) ==
    /\ \E t \in instants \cup {wake_at[th] : th \in Sleepers} :
          /\ t > clock
          /\ clock' = t
    /\ UNCHANGED <<calls, pc, now, sleep_time, wake_at, held, stamp, cur,
                   history>>
    /\ UNCHANGED limiter
    /\ UNCHANGED manager
    /\ UNCHANGED app

-----------------------------------------------------------------------------
(* RateLimiter.wait, one action per step at which another thread can run. *)

\* lines 33-34: wait() is entered, with no local variable set but now, which
\* is read from the clock.
EnterWait(th) ==
    /\ constructed
    /\ now' = [now EXCEPT ![th] = clock]
    /\ sleep_time' = [sleep_time EXCEPT ![th] = 0]
    /\ wake_at' = [wake_at EXCEPT ![th] = 0]
    /\ stamp' = [stamp EXCEPT ![th] = 0]
    /\ pc' = [pc EXCEPT ![th] = "L35"]
    /\ history' = Append([k \in DOMAIN history |->
                             IF k \in InProgress
                               THEN [history[k] EXCEPT !.overlap = TRUE]
                               ELSE history[k]],
                         [NewCall(clock) EXCEPT !.overlap = InProgress # {}])
    /\ cur' = [cur EXCEPT ![th] = Len(history) + 1]
    /\ UNCHANGED <<calls, clock, held>>
    /\ UNCHANGED limiter

\* A client of the limiter calls wait().
CallWait(th) ==
    /\ pc[th] = "idle"
    /\ task[th] = "none"
    /\ task' = [task EXCEPT ![th] = "wait"]
    /\ EnterWait(th)
    /\ UNCHANGED manager
    /\ UNCHANGED <<repos_left, custom_repos, api_requests>>

\* line 35, the load of self.calls: the list comprehension will run over
\* this list object, whatever self.calls is assigned meanwhile.
WaitLoad(th) ==
    /\ pc[th] = "L35"
    /\ held' = [held EXCEPT ![th] = [ref |-> "self", list |-> <<>>]]
    /\ pc' = [pc EXCEPT ![th] = "L35iter"]
    /\ UNCHANGED <<calls, clock, now, sleep_time, wake_at, stamp, cur, history>>
    /\ UNCHANGED limiter
    /\ UNCHANGED manager
    /\ UNCHANGED app

\* line 35, the list comprehension: a new list of the unexpired timestamps
\* of the list that was loaded.
WaitFilter(th) ==
    /\ pc[th] = "L35iter"
    /\ held' = [held EXCEPT ![th] =
                   [ref |-> "new", list |-> Retained(now[th], HeldList(th))]]
    /\ pc' = [pc EXCEPT ![th] = "L35store"]
    /\ UNCHANGED <<calls, clock, now, sleep_time, wake_at, stamp, cur, history>>
    /\ UNCHANGED limiter
    /\ UNCHANGED manager
    /\ UNCHANGED app

\* line 35, the assignment: self.calls is the new list.  A caller that had
\* loaded the old list keeps it, and it is self.calls no longer.
WaitStore(th) ==
    /\ pc[th] = "L35store"
    /\ calls' = held[th].list
    /\ held' = [o \in DOMAIN held |->
                   IF o = th THEN NoList
                   ELSE IF held[o].ref = "self"
                          THEN [ref |-> "orphan", list |-> calls]
                          ELSE held[o]]
    /\ pc' = [pc EXCEPT ![th] = "L36"]
    /\ history' = Note(th, "retained", Len(held[th].list))
    /\ UNCHANGED <<clock, now, sleep_time, wake_at, stamp, cur>>
    /\ UNCHANGED limiter
    /\ UNCHANGED manager
    /\ UNCHANGED app

\* line 36: the budget check.
WaitCheck(th) ==
    /\ pc[th] = "L36"
    /\ pc' = [pc EXCEPT ![th] = IF BudgetExhausted THEN "L37" ELSE "L39"]
    /\ UNCHANGED <<calls, clock, now, sleep_time, wake_at, held, stamp, cur,
                   history>>
    /\ UNCHANGED limiter
    /\ UNCHANGED manager
    /\ UNCHANGED app

\* Variant of WaitSleepTime with a slip: the time left is stored in
\* self.interval as well.
WaitSleepTimeClobber(th) ==
    /\ pc[th] = "L37"
    /\ IF calls = <<>>
         THEN /\ pc' = [pc EXCEPT ![th] = "raised"]
              /\ history' = Note(th, "raised", TRUE)
              /\ UNCHANGED <<sleep_time, interval>>
         ELSE /\ pc' = [pc EXCEPT ![th] = "L38"]
              /\ sleep_time' = [sleep_time EXCEPT ![th] = SleepTime(th)]
              /\ interval' = SleepTime(th)
              /\ history' = [history EXCEPT
                               ![cur[th]].oldest =
                                   Min({calls[i] : i \in DOMAIN calls}),
                               ![cur[th]].sleep_time = SleepTime(th)]
    /\ UNCHANGED <<calls, clock, now, wake_at, held, stamp, cur>>
    /\ UNCHANGED <<constructed, calls_per_interval>>
    /\ UNCHANGED app
    /\ UNCHANGED manager

\* line 37: the computation of sleep_time; self.calls[0] raises IndexError
\* on an empty list.
WaitSleepTime(th) ==
    /\ pc[th] = "L37"
    /\ IF calls = <<>>
         THEN /\ pc' = [pc EXCEPT ![th] = "raised"]
              /\ history' = Note(th, "raised", TRUE)
              /\ UNCHANGED sleep_time
         ELSE /\ pc' = [pc EXCEPT ![th] = "L38"]
              /\ sleep_time' = [sleep_time EXCEPT ![th] = SleepTime(th)]
              /\ history' = [history EXCEPT
                               ![cur[th]].oldest =
                                   Min({calls[i] : i \in DOMAIN calls}),
                               ![cur[th]].sleep_time = SleepTime(th)]
    /\ UNCHANGED <<calls, clock, now, wake_at, held, stamp, cur>>
    /\ UNCHANGED limiter
    /\ UNCHANGED manager
    /\ UNCHANGED app

\* line 38: time.sleep(sleep_time) begins; a negative argument raises
\* ValueError.
WaitSleep(th) ==
    /\ pc[th] = "L38"
    /\ IF sleep_time[th] < 0
         THEN /\ pc' = [pc EXCEPT ![th] = "raised"]
              /\ history' = Note(th, "raised", TRUE)
              /\ UNCHANGED wake_at
         ELSE /\ pc' = [pc EXCEPT ![th] = "sleeping"]
              /\ wake_at' = [wake_at EXCEPT ![th] = clock + sleep_time[th]]
              /\ history' = Note(th, "sleeps", history[cur[th]].sleeps + 1)
    /\ UNCHANGED <<calls, clock, now, sleep_time, held, stamp, cur>>
    /\ UNCHANGED limiter
    /\ UNCHANGED manager
    /\ UNCHANGED app

\* line 38: time.sleep returns, when sleep_time has elapsed or later.
WaitWake(th) ==
    /\ pc[th] = "sleeping"
    /\ clock >= wake_at[th]
    /\ pc' = [pc EXCEPT ![th] = "L39"]
    /\ UNCHANGED <<calls, clock, now, sleep_time, wake_at, held, stamp, cur,
                   history>>
    /\ UNCHANGED limiter
    /\ UNCHANGED manager
    /\ UNCHANGED app

\* line 39, the load of self.calls.append: the timestamp will go to this
\* list object.
WaitAppendLoad(th) ==
    /\ pc[th] = "L39"
    /\ held' = [held EXCEPT ![th] = [ref |-> "self", list |-> <<>>]]
    /\ pc' = [pc EXCEPT ![th] = "L39time"]
    /\ UNCHANGED <<calls, clock, now, sleep_time, wake_at, stamp, cur, history>>
    /\ UNCHANGED limiter
    /\ UNCHANGED manager
    /\ UNCHANGED app

\* Variant of WaitAppendTime with a slip: the timestamp read at entry is
\* recorded, self.calls.append(now).
WaitAppendStale(th) ==
    /\ pc[th] = "L39time"
    /\ stamp' = [stamp EXCEPT ![th] = now[th]]
    /\ pc' = [pc EXCEPT ![th] = "L39append"]
    /\ UNCHANGED <<calls, clock, now, sleep_time, wake_at, held, cur, history>>
    /\ UNCHANGED limiter
    /\ UNCHANGED manager
    /\ UNCHANGED app

\* line 39, the call of time.time().
WaitAppendTime(th) ==
    /\ pc[th] = "L39time"
    /\ stamp' = [stamp EXCEPT ![th] = clock]
    /\ pc' = [pc EXCEPT ![th] = "L39append"]
    /\ UNCHANGED <<calls, clock, now, sleep_time, wake_at, held, cur, history>>
    /\ UNCHANGED limiter
    /\ UNCHANGED manager
    /\ UNCHANGED app

\* Variant of WaitAppend with a slip: the timestamp is put first,
\* self.calls.insert(0, time.time()).
WaitAppendFront(th) ==
    /\ pc[th] = "L39append"
    /\ calls' = IF held[th].ref = "self" THEN <<stamp[th]>> \o calls ELSE calls
    /\ held' = [held EXCEPT ![th] = NoList]
    /\ pc' = [pc EXCEPT ![th] = "returned"]
    /\ history' = Note(th, "admitted", stamp[th])
    /\ UNCHANGED <<clock, now, sleep_time, wake_at, stamp, cur>>
    /\ UNCHANGED limiter
    /\ UNCHANGED manager
    /\ UNCHANGED app

\* line 39, the call of append, and wait() returns.  A timestamp appended
\* to a list that is self.calls no longer is lost.
WaitAppend(th) ==
    /\ pc[th] = "L39append"
    /\ calls' = IF held[th].ref = "self" THEN Append(calls, stamp[th]) ELSE calls
    /\ held' = [held EXCEPT ![th] = NoList]
    /\ pc' = [pc EXCEPT ![th] = "returned"]
    /\ history' = Note(th, "admitted", stamp[th])
    /\ UNCHANGED <<clock, now, sleep_time, wake_at, stamp, cur>>
    /\ UNCHANGED limiter
    /\ UNCHANGED manager
    /\ UNCHANGED app

\* wait() is left: its local variables are gone.
Leave(th) ==
    /\ now' = [now EXCEPT ![th] = 0]
    /\ sleep_time' = [sleep_time EXCEPT ![th] = 0]
    /\ wake_at' = [wake_at EXCEPT ![th] = 0]
    /\ stamp' = [stamp EXCEPT ![th] = 0]

\* The client that called wait() directly goes on.
WaitReturn(th) ==
    /\ task[th] = "wait"
    /\ pc[th] \in {"returned", "raised"}
    /\ pc' = [pc EXCEPT ![th] = "idle"]
    /\ task' = [task EXCEPT ![th] = "none"]
    /\ Leave(th)
    /\ UNCHANGED <<calls, clock, held, cur, history>>
    /\ UNCHANGED limiter
    /\ UNCHANGED manager
    /\ UNCHANGED <<repos_left, custom_repos, api_requests>>

-----------------------------------------------------------------------------
(* SpicetifyManager: the handlers that call the limiter. *)

\* add_custom_repo: one more repository URL in custom_repos.
AddCustomRepo ==
    /\ \A th \in Callers : pc[th] = "idle"
    /\ custom_repos < MaxCustomRepos
    /\ custom_repos' = custom_repos + 1
    /\ UNCHANGED waiting
    /\ UNCHANGED limiter
    /\ UNCHANGED manager
    /\ UNCHANGED <<task, repos_left, api_requests>>

\* remove_custom_repo: the rows selected in the list, at least one, are
\* removed from custom_repos.
RemoveCustomRepo(n) ==
    /\ \A th \in Callers : pc[th] = "idle"
    /\ n \in 1..custom_repos
    /\ custom_repos' = custom_repos - n
    /\ UNCHANGED waiting
    /\ UNCHANGED limiter
    /\ UNCHANGED manager
    /\ UNCHANGED <<task, repos_left, api_requests>>

\* check_for_updates, lines 1122-1125: the handler starts and calls wait().
CheckForUpdates(th) ==
    /\ pc[th] = "idle"
    /\ task[th] = "none"
    /\ Len(history) < MaxCalls
    /\ task' = [task EXCEPT ![th] = "check_for_updates"]
    /\ EnterWait(th)
    /\ UNCHANGED manager
    /\ UNCHANGED <<repos_left, custom_repos, api_requests>>

\* check_for_updates, lines 1127-1133: wait() has returned, the token is
\* fetched (the user answers the password dialog with password and ok when
\* it is shown) and the request for the latest spicetify-cli release is
\* sent; an exception raised by wait() goes to the handler's except clause.
CheckSpicetifyRelease(th, password, ok) ==
    /\ task[th] = "check_for_updates"
    /\ pc[th] \in {"returned", "raised"}
    /\ IF pc[th] = "raised"
         THEN /\ pc' = [pc EXCEPT ![th] = "idle"]
              /\ task' = [task EXCEPT ![th] = "none"]
              /\ UNCHANGED api_requests
              /\ UNCHANGED auth
         ELSE /\ pc' = [pc EXCEPT ![th] = "L1134"]
              /\ api_requests' = api_requests + 1
              /\ UNCHANGED task
              /\ get_github_token(password, ok)
    /\ Leave(th)
    /\ UNCHANGED <<calls, clock, held, cur, history>>
    /\ UNCHANGED limiter
    /\ UNCHANGED gui
    /\ UNCHANGED <<repos_left, custom_repos>>

\* check_for_updates, lines 1134-1163: when nothing raises in between (the
\* response parses, `spicetify -v` succeeds), the request for the latest
\* SpicetifyManager release is sent at line 1152, with no call of wait()
\* before it; then the handler ends.
CheckAppRelease(th, ok) ==
    /\ task[th] = "check_for_updates"
    /\ pc[th] = "L1134"
    /\ api_requests' = IF ok THEN api_requests + 1 ELSE api_requests
    /\ pc' = [pc EXCEPT ![th] = "idle"]
    /\ task' = [task EXCEPT ![th] = "none"]
    /\ UNCHANGED <<calls, clock, now, sleep_time, wake_at, held, stamp, cur,
                   history>>
    /\ UNCHANGED limiter
    /\ UNCHANGED manager
    /\ UNCHANGED <<repos_left, custom_repos>>

\* search_marketplace, lines 850-867: the list of repositories is the
\* built-in one plus custom_repos, the token is fetched (the user answers
\* the password dialog with password and ok when it is shown) and the
\* loop's first iteration calls wait().
SearchMarketplace(th, password, ok) ==
    /\ pc[th] = "idle"
    /\ task[th] = "none"
    /\ Len(history) + 1 + custom_repos <= MaxCalls
    /\ task' = [task EXCEPT ![th] = "search_marketplace"]
    /\ repos_left' = [repos_left EXCEPT ![th] = 1 + custom_repos]
    /\ get_github_token(password, ok)
    /\ EnterWait(th)
    /\ UNCHANGED gui
    /\ UNCHANGED <<custom_repos, api_requests>>

\* search_marketplace, lines 869-880: wait() has returned and the request
\* for the repository is sent; on status 200 the loop goes on to the next
\* repository and calls wait() again, otherwise the handler raises and ends.
SearchRequest(th, ok) ==
    /\ task[th] = "search_marketplace"
    /\ pc[th] \in {"returned", "raised"}
    /\ IF pc[th] = "returned" /\ ok /\ repos_left[th] > 1
         THEN /\ api_requests' = api_requests + 1
              /\ repos_left' = [repos_left EXCEPT ![th] = repos_left[th] - 1]
              /\ EnterWait(th)
              /\ UNCHANGED manager
              /\ UNCHANGED task
         ELSE /\ api_requests' = IF pc[th] = "returned"
                                   THEN api_requests + 1 ELSE api_requests
              /\ repos_left' = [repos_left EXCEPT ![th] = 0]
              /\ pc' = [pc EXCEPT ![th] = "idle"]
              /\ task' = [task EXCEPT ![th] = "none"]
              /\ Leave(th)
              /\ UNCHANGED <<calls, clock, held, cur, history>>
              /\ UNCHANGED limiter
              /\ UNCHANGED manager
    /\ UNCHANGED custom_repos

-----------------------------------------------------------------------------
(* Specifications. *)

\* The steps of wait() in progress.
WaitSteps ==
    \/ \E th \in Callers : WaitLoad(th)
    \/ \E th \in Callers : WaitFilter(th)
    \/ \E th \in Callers : WaitStore(th)
    \/ \E th \in Callers : WaitCheck(th)
    \/ \E th \in Callers : WaitSleepTime(th)
    \/ \E th \in Callers : WaitSleep(th)
    \/ \E th \in Callers : WaitWake(th)
    \/ \E th \in Callers : WaitAppendLoad(th)
    \/ \E th \in Callers : WaitAppendTime(th)
    \/ \E th \in Callers : WaitAppend(th)

\* One limiter with valid arguments, one caller calling wait() at any time.
Next ==
    \/ Tick(0..MaxTime)
    \/ \E th \in Callers : Len(history) < MaxCalls /\ CallWait(th)
    \/ WaitSteps
    \/ \E th \in Callers : WaitReturn(th)

Spec == Init /\ [][Next]_vars

\* The same, with the caller running on and time passing.
FairSpec ==
    /\ Spec
    /\ WF_vars(Tick(0..MaxTime))
    /\ WF_vars(WaitSteps)

\* The same, starting before the limiter is constructed, with any arguments.
NextCtor ==
    \/ \E args \in CtorArgs : Construct(args[1], args[2])
    \/ Next

SpecCtor == InitCtor /\ [][NextCtor]_vars

\* The application: its handlers are the limiter's only callers.
NextApp ==
    \/ Tick(0..MaxTime)
    \/ AddCustomRepo
    \/ \E n \in 1..MaxCustomRepos : RemoveCustomRepo(n)
    \/ \E th \in Callers : CheckForUpdates(th)
    \/ \E th \in Callers, password \in Passwords, ok \in BOOLEAN :
           CheckSpicetifyRelease(th, password, ok)
    \/ \E th \in Callers, ok \in BOOLEAN : CheckAppRelease(th, ok)
    \/ \E th \in Callers, password \in Passwords, ok \in BOOLEAN :
           SearchMarketplace(th, password, ok)
    \/ \E th \in Callers, ok \in BOOLEAN : SearchRequest(th, ok)
    \/ WaitSteps

SpecApp == InitApp /\ [][NextApp]_vars

\* The scenario of the specification's section 8, in ticks of 0.1 s: a
\* limiter of capacity 3 and a window of 10 s, and a caller that calls
\* wait() at instants of the scenario (0, 0.1 s, 11 s) or between them.
Scenario == [capacity |-> 3, window |-> 100, instants |-> {0, 1, 50, 110},
             entered |-> <<0, 0, 0, 1, 110>>,
             admitted |-> <<0, 0, 0, 100, 110>>,
             sleeps |-> <<0, 0, 0, 1, 0>>]

InitScenario ==
    /\ pc = [th \in {1} |-> "idle"]
    /\ constructed = TRUE
    /\ calls_per_interval = Scenario.capacity
    /\ interval = Scenario.window
    /\ InitCommon

NextScenario ==
    \/ Tick(Scenario.instants)
    \/ \E th \in Callers :
          Len(history) < Len(Scenario.entered) /\ CallWait(th)
    \/ WaitSteps
    \/ \E th \in Callers : WaitReturn(th)

SpecScenario == InitScenario /\ [][NextScenario]_vars

\* The calls that read a clock earlier than the previous call's timestamp.
SetBacks == {k \in DOMAIN history :
                k > 1 /\ history[k].entered < history[k - 1].admitted}

\* time.time() is the wall clock, which can be set back: between two calls
\* the clock drops to an earlier instant.  The model follows the set-backs
\* that happen before the last of the MaxCalls calls.
ClockBack(instants) ==
    /\ \A th \in Callers : pc[th] = "idle"
    /\ SetBacks = {}
    /\ Len(history) = MaxCalls - 1
    /\ \E t \in instants : t < clock /\ clock' = t
    /\ UNCHANGED <<calls, pc, now, sleep_time, wake_at, held, stamp, cur,
                   history>>
    /\ UNCHANGED limiter
    /\ UNCHANGED manager
    /\ UNCHANGED app

\* One limiter with valid arguments and two threads that call wait() with
\* no lock: their steps interleave.  The limiter is fresh, or one call of
\* wait() was made and returned at instant 0.
InitMT ==
    /\ pc = [th \in ThreadIds |-> "idle"]
    /\ constructed = TRUE
    /\ \E cfg \in ValidConfigs : calls_per_interval = cfg[1] /\ interval = cfg[2]
    /\ clock = 0
    /\ now = [th \in DOMAIN pc |-> 0]
    /\ sleep_time = [th \in DOMAIN pc |-> 0]
    /\ wake_at = [th \in DOMAIN pc |-> 0]
    /\ held = [th \in DOMAIN pc |-> NoList]
    /\ stamp = [th \in DOMAIN pc |-> 0]
    /\ task = [th \in DOMAIN pc |-> "none"]
    /\ repos_left = [th \in DOMAIN pc |-> 0]
    /\ custom_repos = 0
    /\ api_requests = 0
    /\ cur = [th \in DOMAIN pc |-> 0]
    /\ \/ calls = <<>> /\ history = <<>>
       \/ /\ calls = <<0>>
          /\ history = <<[NewCall(0) EXCEPT !.retained = 0, !.admitted = 0]>>
    /\ InitGuiIdle
    /\ InitAuthIdle

\* Each thread calls wait() once, at any instant up to the length of the
\* window.
NextMT ==
    \/ Tick(0..MaxInterval)
    \/ \E th \in Callers : cur[th] = 0 /\ CallWait(th)
    \/ WaitSteps
    \/ \E th \in Callers : WaitReturn(th)

SpecMT == InitMT /\ [][NextMT]_vars

\* One limiter with valid arguments, one caller, and a clock that may move
\* backward between calls.
NextDrift ==
    \/ ClockBack(0..MaxTime)
    \/ Next

SpecDrift == Init /\ [][NextDrift]_vars

-----------------------------------------------------------------------------
(* SpicetifyManager: the Extensions tab.  The handlers run on the GUI      *)
(* thread; while apply_changes is in progress no other handler starts.     *)
(* An exception that leaves a handler ends the handler; PyQt prints it and *)
(* the program goes on, or ends with it.                                   *)

\* The user edits the search box: textChanged calls filter_extensions
\* (lines 527, 629-630), which refills the table.
SetSearchText(text) ==
    /\ apply_pc = "idle"
    /\ text # search_text
    /\ search_text' = text
    /\ extensions_table' \in Tables(extensions_dir, text, sort_by, extensions)
    /\ UNCHANGED <<config_loaded, file_extensions, config_extensions,
                   extensions, extensions_dir, config_dir, sort_by, apply_button, apply_pc,
                   apply_result>>
    /\ UNCHANGED <<waiting, limiter, app, auth>>

\* The user picks another sort order: currentTextChanged calls
\* populate_extensions (line 530).
SetSortBy(by) ==
    /\ apply_pc = "idle"
    /\ by # sort_by
    /\ sort_by' = by
    /\ extensions_table' \in Tables(extensions_dir, search_text, by, extensions)
    /\ UNCHANGED <<config_loaded, file_extensions, config_extensions,
                   extensions, extensions_dir, config_dir, search_text, apply_button,
                   apply_pc, apply_result>>
    /\ UNCHANGED <<waiting, limiter, app, auth>>

\* The user clicks the check box of a row (the item is user-checkable,
\* line 591).
ToggleCheck(row) ==
    /\ apply_pc = "idle"
    /\ row \in DOMAIN extensions_table
    /\ extensions_table' =
          [extensions_table EXCEPT ![row].checked = ~extensions_table[row].checked]
    /\ UNCHANGED <<config_loaded, file_extensions, config_extensions,
                   extensions, extensions_dir, config_dir, search_text, sort_by,
                   apply_button, apply_pc, apply_result>>
    /\ UNCHANGED <<waiting, limiter, app, auth>>

\* load_config (lines 133-142) on a file, followed when it returns by
\* populate_extensions: config.read sets the option in self.config;
\* config.get raises on a value that does not interpolate, and
\* self.extensions, self.extensions_dir and the table are then left as they
\* were; otherwise self.extensions_dir is the folder beside the file and
\* the table is filled from it.  dir holds the files of the folder
\* self.extensions_dir names, beside is the folder beside the file.
LoadAndPopulate(file, dir, beside) ==
    /\ config_extensions' = ReadFile(file, config_extensions)
    /\ apply_result' = "none"
    /\ LET value == StoredValue(ReadFile(file, config_extensions))
       IN  IF InterpolationError(value)
             THEN /\ extensions_dir' = dir
                  /\ config_dir' = beside
                  /\ UNCHANGED <<extensions, extensions_table>>
             ELSE /\ extensions' = ParseExtensions(ReadValue(value))
                  /\ extensions_dir' = LoadedDir(dir, beside)
                  /\ config_dir' = SameDir
                  /\ extensions_table' \in
                        Tables(LoadedDir(dir, beside), search_text, sort_by,
                               ParseExtensions(ReadValue(value)))

\* refresh_all (lines 496-510).  The path in directory_input is not a file
\* (valid is false): a warning, nothing else.  Otherwise it is config_path
\* from now on, the file it names holding the lines in file, with the
\* folder beside it; load_config reads it, the button is enabled and the
\* table refilled.  When load_config raises the handler ends there, after
\* config_path and self.config have changed.
RefreshAll(valid, file, beside) ==
    /\ apply_pc = "idle"
    /\ IF valid
         THEN /\ file_extensions' = file
              /\ LoadAndPopulate(file, extensions_dir, beside)
              /\ IF InterpolationError(
                        StoredValue(ReadFile(file, config_extensions)))
                   THEN UNCHANGED <<config_loaded, apply_button>>
                   ELSE config_loaded' = TRUE /\ apply_button' = TRUE
         ELSE UNCHANGED <<config_loaded, file_extensions, config_extensions,
                          extensions, extensions_dir, config_dir,
                          extensions_table, apply_button, apply_result>>
    /\ UNCHANGED <<search_text, sort_by, apply_pc>>
    /\ UNCHANGED <<waiting, limiter, app, auth>>

\* restore_configuration (lines 1104-1119) with a backup chosen.  The
\* archive cannot be read (ok is false): an error message, nothing else.
\* Otherwise it is extracted over the folder of config_path: the files of
\* backup go to the folder Extensions beside the file at config_path, and
\* the file holds the lines in file afterwards.  Then load_config and
\* populate_extensions run; an exception of load_config is caught by the
\* handler.
RestoreConfiguration(ok, file, backup) ==
    /\ apply_pc = "idle"
    /\ IF ok
         THEN /\ file_extensions' = file
              /\ IF config_dir.is = "same"
                   THEN LoadAndPopulate(file,
                                        Extracted(extensions_dir, backup),
                                        SameDir)
                   ELSE LoadAndPopulate(file, extensions_dir,
                            IF backup = {} THEN config_dir
                            ELSE OtherDir(Extracted(config_dir.files,
                                                    backup)))
         ELSE UNCHANGED <<file_extensions, config_extensions, extensions,
                          extensions_dir, config_dir, extensions_table,
                          apply_result>>
    /\ UNCHANGED <<config_loaded, search_text, sort_by, apply_button,
                   apply_pc>>
    /\ UNCHANGED <<waiting, limiter, app, auth>>

\* save_config_from_editor (lines 932-936): the text of the editor, which
\* the user has edited at will, replaces the content of the file;
\* self.config is not read again.
SaveConfigFromEditor(file) ==
    /\ apply_pc = "idle"
    /\ file_extensions' = file
    /\ UNCHANGED <<config_loaded, config_extensions, extensions,
                   extensions_dir, config_dir, search_text, sort_by, extensions_table,
                   apply_button, apply_pc, apply_result>>
    /\ UNCHANGED <<waiting, limiter, app, auth>>

\* apply_selected_theme with a theme selected, lines 709-716: self.config
\* is written to the file, the option `extensions` with it when it is
\* set.
ApplySelectedTheme ==
    /\ apply_pc = "idle"
    /\ file_extensions' = config_extensions
    /\ UNCHANGED <<config_loaded, config_extensions, extensions,
                   extensions_dir, config_dir, search_text, sort_by, extensions_table,
                   apply_button, apply_pc, apply_result>>
    /\ UNCHANGED <<waiting, limiter, app, auth>>

\* apply_custom_apps, lines 786-795: self.config is written to the file,
\* the option `extensions` with it when it is set.
ApplyCustomApps ==
    /\ apply_pc = "idle"
    /\ file_extensions' = config_extensions
    /\ UNCHANGED <<config_loaded, config_extensions, extensions,
                   extensions_dir, config_dir, search_text, sort_by, extensions_table,
                   apply_button, apply_pc, apply_result>>
    /\ UNCHANGED <<waiting, limiter, app, auth>>

\* install_marketplace_extension (lines 882-906) with name selected in the
\* marketplace list: the token is fetched (the user answers the password
\* dialog with password and pw_ok when it is shown); when the download
\* succeeds (ok) the file is written to the folder Extensions beside the
\* file at config_path and the table is refilled from the folder
\* self.extensions_dir names; open raises when the folder to write to does
\* not exist, and the handler shows the error as it does when the download
\* fails.
InstallExtension(name, password, pw_ok, ok) ==
    /\ apply_pc = "idle"
    /\ get_github_token(password, pw_ok)
    /\ IF ok /\ config_dir.is = "same"
         THEN /\ extensions_dir' = Installed(extensions_dir, name, InstallTime)
              /\ extensions_table' \in
                    Tables(Installed(extensions_dir, name, InstallTime),
                           search_text, sort_by, extensions)
              /\ UNCHANGED config_dir
         ELSE IF ok /\ config_dir.is = "other"
           THEN /\ config_dir' =
                      OtherDir(Installed(config_dir.files, name, InstallTime))
                /\ extensions_table' \in
                      Tables(extensions_dir, search_text, sort_by, extensions)
                /\ UNCHANGED extensions_dir
           ELSE UNCHANGED <<extensions_dir, config_dir, extensions_table>>
    /\ UNCHANGED <<config_loaded, file_extensions, config_extensions,
                   extensions, search_text, sort_by, apply_button, apply_pc,
                   apply_result>>
    /\ UNCHANGED <<waiting, limiter, app>>

\* apply_changes, lines 632-648: the names of the checked rows are joined
\* and set in self.config, which is written to the file.  config.set
\* raises on a value with a stray '%', and open raises when the file
\* cannot be written (writable is false): the handler ends there.
ApplyChanges(writable) ==
    /\ apply_pc = "idle"
    /\ apply_button
    /\ config_loaded
    /\ LET selected_extensions == Selected(extensions_table)
       IN  IF SetError(Join(selected_extensions))
             THEN UNCHANGED <<config_extensions, file_extensions, apply_pc, apply_result>>
             ELSE /\ config_extensions' = <<Join(selected_extensions)>>
                  /\ IF writable
                       THEN /\ file_extensions' = <<Join(selected_extensions)>>
                            /\ apply_pc' = "L651"
                            /\ apply_result' = "written"
                       ELSE UNCHANGED <<file_extensions, apply_pc,
                                        apply_result>>
    /\ UNCHANGED <<config_loaded, extensions, extensions_dir, config_dir, search_text,
                   sort_by, extensions_table, apply_button>>
    /\ UNCHANGED <<waiting, limiter, app, auth>>

\* apply_changes, lines 651-652: the button is disabled before the command
\* is started.
ApplyDisable ==
    /\ apply_pc = "L651"
    /\ apply_button' = FALSE
    /\ apply_pc' = "running"
    /\ UNCHANGED <<config_loaded, file_extensions, config_extensions,
                   extensions, extensions_dir, config_dir, search_text, sort_by,
                   extensions_table, apply_result>>
    /\ UNCHANGED <<waiting, limiter, app, auth>>

\* The ways subprocess.run(['spicetify', 'apply'], check=True) ends: it
\* returns, or raises CalledProcessError, FileNotFoundError, or an exception
\* no except clause names.
Outcomes == {"returned", "CalledProcessError", "FileNotFoundError", "OSError"}

\* apply_changes, lines 653-665: the command runs and ends; each except
\* clause shows a message and touches neither the config nor the file.
SpicetifyApply(outcome) ==
    /\ apply_pc = "running"
    /\ apply_result' = outcome
    /\ apply_pc' = "finally"
    /\ UNCHANGED <<config_loaded, file_extensions, config_extensions,
                   extensions, extensions_dir, config_dir, search_text, sort_by,
                   extensions_table, apply_button>>
    /\ UNCHANGED <<waiting, limiter, app, auth>>

\* As if the button were enabled again at the end of the try body only.
ApplyFinallyOnSuccess ==
    /\ apply_pc = "finally"
    /\ apply_button' = (apply_result = "returned")
    /\ apply_pc' = "idle"
    /\ apply_result' =
          IF apply_result = "returned" THEN "returned" ELSE "failed"
    /\ UNCHANGED <<config_loaded, file_extensions, config_extensions,
                   extensions, extensions_dir, config_dir, search_text, sort_by,
                   extensions_table>>
    /\ UNCHANGED <<waiting, limiter, app, auth>>

\* apply_changes, lines 666-668: the finally clause enables the button.
\* Of the way the command ended, apply_result keeps whether it returned.
ApplyFinally ==
    /\ apply_pc = "finally"
    /\ apply_button' = TRUE
    /\ apply_pc' = "idle"
    /\ apply_result' =
          IF apply_result = "returned" THEN "returned" ELSE "failed"
    /\ UNCHANGED <<config_loaded, file_extensions, config_extensions,
                   extensions, extensions_dir, config_dir, search_text, sort_by,
                   extensions_table>>
    /\ UNCHANGED <<waiting, limiter, app, auth>>

\* The manager when __init__ has ended.  A config file was found (without
\* one load_themes raises at line 701 and no manager is built), it loaded
\* without an error and the table was filled (lines 71-73, 546-548); the
\* start-up check_for_updates of line 82 has called wait() once on the
\* limiter of line 64, has found no token stored and has sent its two
\* requests.
InitGui ==
    /\ pc = [th \in {1} |-> "idle"]
    /\ constructed = TRUE
    /\ calls_per_interval = 60
    /\ interval = 3600
    /\ InitStarted
    /\ api_requests = 2
    /\ custom_repos = 0
    /\ InitAuthStarted(NoToken)
    /\ config_loaded = TRUE
    /\ file_extensions \in StoredFiles
    /\ config_extensions = ReadFile(file_extensions, <<>>)
    /\ extensions =
          ParseExtensions(ReadValue(StoredValue(config_extensions)))
    /\ extensions_dir = ExtensionsDir
    /\ config_dir = SameDir
    /\ search_text = <<>>
    /\ sort_by = "Name"
    /\ extensions_table \in Tables(ExtensionsDir, <<>>, "Name", extensions)
    /\ apply_button = TRUE
    /\ apply_pc = "idle"
    /\ apply_result = "none"

\* No token is stored under this specification and the password dialog is
\* never shown, so its answer is left at a cancelled one.
NextGui ==
    \/ \E text \in SearchTexts : SetSearchText(text)
    \/ \E by \in SortOrders : SetSortBy(by)
    \/ \E row \in DOMAIN extensions_table : ToggleCheck(row)
    \/ RefreshAll(FALSE, file_extensions, config_dir)
    \/ \E file \in {file_extensions} \cup OtherFiles,
          beside \in {SameDir, config_dir} \cup ElsewhereDirs :
           RefreshAll(TRUE, file, beside)
    \/ RestoreConfiguration(FALSE, file_extensions, {})
    \/ \E file \in {file_extensions} \cup OtherFiles, backup \in Backups :
           RestoreConfiguration(TRUE, file, backup)
    \/ \E file \in EditorFiles : SaveConfigFromEditor(file)
    \/ ApplySelectedTheme
    \/ ApplyCustomApps
    \/ \E name \in Installable, ok \in BOOLEAN :
           InstallExtension(name, "", FALSE, ok)
    \/ \E writable \in BOOLEAN : ApplyChanges(writable)
    \/ ApplyDisable
    \/ \E outcome \in Outcomes : SpicetifyApply(outcome)
    \/ ApplyFinally

SpecGui == InitGui /\ [][NextGui]_vars

-----------------------------------------------------------------------------
(* SpicetifyManager: the GitHub token. *)

\* The user edits the token field.
EditToken(text) ==
    /\ text # token_input
    /\ token_input' = text
    /\ UNCHANGED <<encrypted_token, encryption_key, last_get>>
    /\ UNCHANGED <<waiting, limiter, app, gui>>

\* save_github_token (lines 996-1012) with a token in the field and a
\* password entered and accepted; otherwise it only shows a warning.
SaveGithubToken(password, ok) ==
    /\ token_input # ""
    /\ ok /\ password # ""
    /\ encryption_key' = derive_key_from_password(password)
    /\ encrypted_token' =
          encrypt_token(derive_key_from_password(password), token_input)
    /\ token_input' = ""
    /\ UNCHANGED last_get
    /\ UNCHANGED <<waiting, limiter, app, gui>>

\* A handler calls get_github_token.
GetGithubToken(password, ok) ==
    /\ get_github_token(password, ok)
    /\ UNCHANGED <<waiting, limiter, app, gui>>

\* The tokens QSettings can hold when the program starts (line 60).
StoredTokens ==
    {NoToken} \cup
    {encrypt_token(derive_key_from_password(p), t) :
        p \in Passwords \ {""}, t \in Tokens \ {""}}

\* The manager when __init__ has ended, with any of the tokens stored and
\* any answer to the password dialog of the start-up check_for_updates.
InitToken ==
    /\ pc = [th \in {1} |-> "idle"]
    /\ constructed = TRUE
    /\ calls_per_interval = 60
    /\ interval = 3600
    /\ InitStarted
    /\ custom_repos = 0
    /\ InitGuiIdle
    /\ \E encrypted \in StoredTokens : InitAuthStarted(encrypted)

NextToken ==
    \/ \E text \in Tokens : EditToken(text)
    \/ \E password \in Passwords, ok \in BOOLEAN : SaveGithubToken(password, ok)
    \/ \E password \in Passwords, ok \in BOOLEAN : GetGithubToken(password, ok)

SpecToken == InitToken /\ [][NextToken]_vars

-----------------------------------------------------------------------------
(* Properties. *)

AdmittedAt(k) == history[k].admitted

\* The admissions inside the window of length interval that ends with
\* admission k: those newer than AdmittedAt(k) - interval.
InWindow(k) == {j \in Admitted : /\ AdmittedAt(j) > AdmittedAt(k) - interval
                                 /\ AdmittedAt(j) <= AdmittedAt(k)}

\* C1: with one caller and a non-decreasing clock, no window of length
\* interval holds more than calls_per_interval admissions: for every
\* admission, at most calls_per_interval admissions (itself included) are
\* less than interval older than it.
C1_WindowBound ==
    \A k \in Admitted : Cardinality(InWindow(k)) <= calls_per_interval

\* An admission that had to sleep has been recorded, more admissions than the
\* capacity exist, and the window that ends with it is full.
C1_Witness ==
    \E k \in Admitted :
        /\ history[k].sleeps = 1
        /\ Cardinality(Admitted) > calls_per_interval
        /\ Cardinality(InWindow(k)) = calls_per_interval

\* The timestamps kept in calls that are newer than t - interval.
NewerThan(t) == {i \in DOMAIN calls : calls[i] > t - interval}

\* C2: right after wait() returns, at most calls_per_interval of the
\* timestamps kept in calls are newer than the admission time minus interval.
C2_RetainedAfterReturn ==
    \A th \in Callers :
        pc[th] = "returned" =>
            Cardinality(NewerThan(AdmittedAt(cur[th]))) <= calls_per_interval

\* wait() has just returned from an admission that slept, and the timestamp
\* that caused the sleep is still in calls.
C2_Witness ==
    \E th \in Callers :
        /\ pc[th] = "returned"
        /\ history[cur[th]].sleeps = 1
        /\ Len(calls) = calls_per_interval + 1
        /\ calls[1] = history[cur[th]].oldest
        /\ Cardinality(NewerThan(AdmittedAt(cur[th]))) = calls_per_interval

\* C3: every request sent to the GitHub API follows its own admission: the
\* number of API requests never exceeds the number of admissions.
C3_RequestsWithinAdmissions == api_requests <= Cardinality(Admitted)

\* The check of line 36 has been made for call k.
Checked(k) ==
    /\ history[k].retained # NoTime
    /\ \A th \in Callers :
          cur[th] = k => pc[th] \notin {"L35", "L35iter", "L35store", "L36"}

\* Call k has left line 38, if it ever was there.
PastSleep(k) ==
    /\ Checked(k)
    /\ \A th \in Callers :
          cur[th] = k => pc[th] \notin {"L37", "L38", "sleeping"}

\* Call k has returned from wait().
Finished(k) == history[k].admitted # NoTime

\* Call k did not sleep: it neither slept, nor is about to, nor raised.
NoSleep(k) ==
    /\ history[k].sleeps = 0
    /\ ~history[k].raised
    /\ \A th \in Callers :
          cur[th] = k => pc[th] \notin {"L37", "L38", "sleeping"}

\* Calls 1..k were entered at the same instant.
Burst(k) == \A j \in 1..k : history[j].entered = history[1].entered

\* C4: on a fresh limiter, the first calls_per_interval calls entered with no
\* time passing between them return without sleeping.
C4_BurstNotDelayed ==
    \A k \in DOMAIN history :
        (k <= calls_per_interval /\ Burst(k)) => NoSleep(k)

\* A burst of calls_per_interval >= 2 calls, not at time 0, has all returned.
C4_Witness ==
    /\ calls_per_interval >= 2
    /\ Len(history) >= calls_per_interval
    /\ Burst(calls_per_interval)
    /\ history[1].entered > 0
    /\ \A j \in 1..calls_per_interval : Finished(j)

\* C5, as stated: a call that finds calls_per_interval unexpired timestamps
\* retained sleeps once, for exactly interval - (now - oldest retained
\* timestamp), and is admitted at the instant the oldest retained timestamp
\* becomes interval old, not earlier and not later; in particular call
\* number calls_per_interval + 1 entered after a burst, before the burst
\* expired, is admitted when the first timestamp of the burst becomes
\* interval old.
C5_SleepDuration ==
    /\ \A k \in DOMAIN history :
          (Checked(k) /\ history[k].retained = calls_per_interval) =>
              /\ ~history[k].raised
              /\ PastSleep(k) =>
                    /\ history[k].sleeps = 1
                    /\ history[k].sleep_time =
                           interval - (history[k].entered - history[k].oldest)
              /\ Finished(k) => AdmittedAt(k) = history[k].oldest + interval
    /\ \A k \in DOMAIN history :
          (/\ k = calls_per_interval + 1
           /\ Burst(calls_per_interval)
           /\ history[k].entered - history[1].entered < interval
           /\ Finished(k)) =>
              /\ history[k].sleeps = 1
              /\ AdmittedAt(k) = AdmittedAt(1) + interval

\* C5, amended: a call that finds calls_per_interval unexpired timestamps
\* retained asks time.sleep once for exactly interval - (now - oldest
\* retained timestamp), and is admitted when the oldest retained timestamp
\* is interval old or older: not earlier, and later when time passes
\* between the statements of wait() or the sleep lasts longer than asked.
C5_SleepDurationAtLeast ==
    /\ \A k \in DOMAIN history :
          (Checked(k) /\ history[k].retained = calls_per_interval) =>
              /\ ~history[k].raised
              /\ PastSleep(k) =>
                    /\ history[k].sleeps = 1
                    /\ history[k].sleep_time =
                           interval - (history[k].entered - history[k].oldest)
              /\ Finished(k) => AdmittedAt(k) >= history[k].oldest + interval
    /\ \A k \in DOMAIN history :
          (/\ k = calls_per_interval + 1
           /\ Burst(calls_per_interval)
           /\ history[k].entered - history[1].entered < interval
           /\ Finished(k)) =>
              /\ history[k].sleeps = 1
              /\ AdmittedAt(k) >= AdmittedAt(1) + interval

\* Call number calls_per_interval + 1, entered some time after a burst, has
\* slept for less than interval and has been admitted, later than the
\* instant the first timestamp of the burst became interval old.
C5_Witness ==
    \E k \in DOMAIN history :
        /\ k = calls_per_interval + 1
        /\ calls_per_interval >= 2
        /\ Burst(calls_per_interval)
        /\ history[k].entered > history[1].entered
        /\ history[k].retained = calls_per_interval
        /\ history[k].sleeps = 1
        /\ Finished(k)
        /\ AdmittedAt(k) > AdmittedAt(1) + interval

\* C6: a call entered more than interval after the previous call returned
\* returns without sleeping, whatever the history.
C6_IdleThenImmediate ==
    \A k \in DOMAIN history :
        (/\ k > 1
         /\ Finished(k - 1)
         /\ history[k].entered - AdmittedAt(k - 1) > interval) => NoSleep(k)

\* A call that slept was followed, more than interval later, by a call that
\* has returned.
C6_Witness ==
    \E k \in DOMAIN history :
        /\ k > 1
        /\ history[k - 1].sleeps = 1
        /\ Finished(k - 1)
        /\ history[k].entered - AdmittedAt(k - 1) > interval
        /\ Finished(k)

\* The first k calls were entered at the instants of the scenario.
ScenarioPrefix(k) ==
    /\ k <= Len(Scenario.entered)
    /\ \A j \in 1..k : history[j].entered = Scenario.entered[j]

\* C7, as stated: with capacity 3 and a window of 10 s, three calls at t = 0
\* return without sleeping, a fourth entered at t = 0.1 s sleeps and is
\* admitted at t = 10 s, and a fifth entered at t = 11 s returns without
\* sleeping.
C7_Scenario ==
    \A k \in DOMAIN history :
        ScenarioPrefix(k) =>
            /\ ~history[k].raised
            /\ history[k].sleeps <= Scenario.sleeps[k]
            /\ PastSleep(k) => history[k].sleeps = Scenario.sleeps[k]
            /\ (Finished(k) /\ Scenario.sleeps[k] = 1) =>
                  AdmittedAt(k) = Scenario.admitted[k]

\* C7, amended: in that scenario the fourth call asks for a sleep of 9.9 s
\* and is admitted at t = 10 s or later, never before; the other calls do
\* not sleep.
C7_ScenarioAtLeast ==
    \A k \in DOMAIN history :
        ScenarioPrefix(k) =>
            /\ ~history[k].raised
            /\ history[k].sleeps <= Scenario.sleeps[k]
            /\ PastSleep(k) =>
                  /\ history[k].sleeps = Scenario.sleeps[k]
                  /\ Scenario.sleeps[k] = 1 =>
                        history[k].sleep_time
                            = Scenario.admitted[k] - Scenario.entered[k]
            /\ (Finished(k) /\ Scenario.sleeps[k] = 1) =>
                  AdmittedAt(k) >= Scenario.admitted[k]

\* The five calls of the scenario have been made and have returned, the
\* fourth admitted later than t = 10 s.
C7_Witness ==
    /\ Len(history) = Len(Scenario.entered)
    /\ ScenarioPrefix(Len(history))
    /\ \A k \in DOMAIN history : Finished(k)
    /\ AdmittedAt(4) > Scenario.admitted[4]

\* Calls 1..k were entered more than interval / calls_per_interval apart.
Spaced(k) ==
    \A j \in 2..k :
        (history[j].entered - history[j - 1].entered) * calls_per_interval
            > interval

\* C8, as stated: when consecutive calls are entered more than
\* interval / calls_per_interval apart, no call sleeps.
C8_SpacedNeverBlocks ==
    \A k \in DOMAIN history : Spaced(k) => NoSleep(k)

\* Each of the calls 2..k was entered more than
\* interval / calls_per_interval after the timestamp the call before it
\* recorded.
SpacedFromAdmission(k) ==
    \A j \in 2..k :
        /\ Finished(j - 1)
        /\ (history[j].entered - AdmittedAt(j - 1)) * calls_per_interval
               > interval

\* C8, amended: when every call is entered more than
\* interval / calls_per_interval after the timestamp recorded by the call
\* before it, no call sleeps.  (The timestamp is read at line 39, later
\* than the entry when time passes inside wait().)
C8_SpacedFromAdmissionNeverBlocks ==
    \A k \in DOMAIN history : SpacedFromAdmission(k) => NoSleep(k)

\* More calls than the capacity, each entered more than interval /
\* calls_per_interval after the timestamp of the call before it but less
\* than interval after, have all returned, one of them with a timestamp
\* later than its entry.
C8_Witness ==
    \E k \in DOMAIN history :
        /\ k > calls_per_interval
        /\ calls_per_interval >= 2
        /\ SpacedFromAdmission(k)
        /\ \A j \in 2..k : history[j].entered - history[j - 1].entered < interval
        /\ \A j \in 1..k : Finished(j)
        /\ \E j \in 1..k : AdmittedAt(j) > history[j].entered

\* C9: a limiter never exists with a non-positive calls_per_interval or a
\* non-positive interval (construction with such arguments fails).
C9_ConstructionValidates ==
    constructed => (calls_per_interval > 0 /\ interval > 0)

\* Caller th is inside wait().
InWait(th) ==
    IF th \in Callers THEN pc[th] \notin {"idle", "returned"} ELSE FALSE

\* Caller th has just returned from wait() with its timestamp recorded.
Returned(th) ==
    IF th \in Callers
      THEN pc[th] = "returned" /\ Finished(cur[th])
      ELSE FALSE

\* C10: on a limiter with positive arguments every call of wait() eventually
\* returns with its timestamp recorded; no call raises, and no call sleeps
\* more than once.
C10_WaitReturns ==
    /\ [](\A k \in DOMAIN history :
             history[k].sleeps <= 1 /\ ~history[k].raised)
    /\ \A th \in ThreadIds :
          [](InWait(th) => <>Returned(th))

\* A call that found the budget exhausted has blocked until its wake-up
\* instant and has returned as an admission.
C10_Witness ==
    \E th \in Callers :
        /\ pc[th] = "returned"
        /\ history[cur[th]].sleeps = 1
        /\ wake_at[th] > history[cur[th]].entered
        /\ AdmittedAt(cur[th]) = wake_at[th]
        /\ calls[Len(calls)] = wake_at[th]

\* C11: wait() never raises: no call of wait() ends in an exception, in any
\* state of any limiter that was constructed.
C11_WaitNeverRaises ==
    /\ \A th \in Callers : pc[th] # "raised"
    /\ \A k \in DOMAIN history : ~history[k].raised

\* Caller th has computed sleep_time and passes it to time.sleep.
AtSleep(th) == pc[th] \in {"L38", "sleeping"}

\* C12: the duration passed to time.sleep is never negative, whatever the
\* history retained and whatever the clock reads, a clock earlier than the
\* recorded timestamps included.
C12_SleepNeverNegative ==
    /\ \A th \in Callers : AtSleep(th) => sleep_time[th] >= 0
    /\ \A k \in DOMAIN history : history[k].sleep_time >= 0

\* After the clock was set back, a call finds the budget exhausted by
\* timestamps that lie in the future of the clock it read, and sleeps.
C12_Witness ==
    \E th \in Callers :
        /\ AtSleep(th)
        /\ cur[th] \in SetBacks
        /\ calls[1] > now[th]
        /\ sleep_time[th] > 0

\* C13: the sleep requested by one wait() never exceeds interval, also when
\* the clock was set back and retained timestamps lie in its future.
C13_SleepWithinInterval ==
    \A th \in Callers : AtSleep(th) => sleep_time[th] <= interval

\* C14: wait() has no mutual exclusion, and the capacity bound rests on it:
\* with two threads a window can hold more than calls_per_interval
\* admissions, and every such window holds an admission of a call that ran
\* while another call was in progress.
C14_OverAdmissionNeedsOverlap ==
    \A k \in Admitted :
        Cardinality(InWindow(k)) > calls_per_interval =>
            \E j \in InWindow(k) : history[j].overlap

\* Two interleaved calls have both been admitted and a window holds more
\* than calls_per_interval admissions.
C14_Witness ==
    \E k \in Admitted :
        /\ Cardinality(InWindow(k)) > calls_per_interval
        /\ history[k].overlap

\* C15: wait() sleeps exactly when, after pruning, at least
\* calls_per_interval timestamps are retained; below that it records its
\* timestamp and returns with no sleep.
C15_SleepsIffExhausted ==
    \A k \in DOMAIN history :
        Checked(k) =>
            IF history[k].retained >= calls_per_interval
              THEN /\ ~history[k].raised
                   /\ PastSleep(k) => history[k].sleeps = 1
              ELSE NoSleep(k)

\* A call that slept was followed by a call that found one timestamp less
\* than the capacity and returned without sleeping.
C15_Witness ==
    \E k \in DOMAIN history :
        /\ k > 1
        /\ history[k - 1].sleeps = 1
        /\ history[k].retained = calls_per_interval - 1
        /\ history[k].retained > 0
        /\ history[k].sleeps = 0
        /\ Finished(k)

\* The admissions made at instant t, and the entries of calls equal to t.
AdmittedAtInstant(t) == {j \in Admitted : AdmittedAt(j) = t}
KeptAtInstant(t) == {i \in DOMAIN calls : calls[i] = t}

\* C16: when the retained count is compared with calls_per_interval, calls
\* holds no timestamp whose age is interval or more (one exactly interval
\* old included) and holds every admission younger than interval.
C16_PrunedBeforeCheck ==
    \A th \in Callers :
        pc[th] = "L36" =>
            /\ \A i \in DOMAIN calls : now[th] - calls[i] < interval
            /\ \A j \in Admitted :
                  now[th] - AdmittedAt(j) < interval =>
                      Cardinality(KeptAtInstant(AdmittedAt(j)))
                          = Cardinality(AdmittedAtInstant(AdmittedAt(j)))

\* At the check an admission exactly interval old has been discarded, younger
\* ones are kept, and the budget is free only because of the discarded one.
C16_Witness ==
    \E th \in Callers :
        /\ pc[th] = "L36"
        /\ calls # <<>>
        /\ Len(calls) < calls_per_interval
        /\ Len(calls) + Cardinality(AdmittedAtInstant(now[th] - interval))
               >= calls_per_interval

\* C17: each wait() appends exactly one timestamp, read from the clock after
\* the sleep, if any, has ended and before wait() returns: when wait()
\* returns, calls is the pruned list plus one entry, a clock reading not
\* earlier than the entry of wait() and not later than its return; for a
\* call that slept it was read when the sleep was over, later than the
\* instant wait() was entered.
C17_TimestampAtAdmission ==
    \A th \in Callers :
        pc[th] = "returned" =>
            /\ Len(calls) = history[cur[th]].retained + 1
            /\ calls[Len(calls)] = stamp[th]
            /\ AdmittedAt(cur[th]) = stamp[th]
            /\ history[cur[th]].entered <= stamp[th]
            /\ stamp[th] <= clock
            /\ history[cur[th]].sleeps = 1 =>
                  /\ calls[Len(calls)] >= wake_at[th]
                  /\ calls[Len(calls)] >=
                         history[cur[th]].entered + history[cur[th]].sleep_time
                  /\ calls[Len(calls)] > history[cur[th]].entered

\* A call that slept has returned and its timestamp is later than its entry.
C17_Witness ==
    \E th \in Callers :
        /\ pc[th] = "returned"
        /\ history[cur[th]].sleeps = 1
        /\ calls[Len(calls)] > now[th]
        /\ calls[Len(calls)] = wake_at[th]
        /\ calls[Len(calls)] = clock

\* C18: once the limiter is constructed no step changes calls_per_interval
\* or interval (wait() writes only calls).
C18_ParametersFixed ==
    [][constructed => /\ constructed'
                      /\ calls_per_interval' = calls_per_interval
                      /\ interval' = interval]_vars

\* A limiter constructed by __init__ has admitted a call that slept.
C18_Witness ==
    /\ constructed
    /\ calls_per_interval > 0
    /\ interval > 0
    /\ \E k \in Admitted : history[k].sleeps = 1 /\ k < Len(history)

\* C19: with one caller and a non-decreasing clock, calls is in
\* non-decreasing order, so calls[0] is its oldest timestamp.
C19_CallsSorted ==
    /\ \A i, j \in DOMAIN calls : i <= j => calls[i] <= calls[j]
    /\ calls # <<>> => calls[1] = Min({calls[i] : i \in DOMAIN calls})

\* The sleep is being computed from a list of distinct timestamps whose
\* first entry is the oldest.
C19_Witness ==
    \E th \in Callers :
        /\ pc[th] = "L38"
        /\ Len(calls) >= 2
        /\ calls[1] < calls[Len(calls)]
        /\ sleep_time[th] = interval - (now[th] - calls[1])

\* C20: with one caller and a non-decreasing clock, calls never holds more
\* than calls_per_interval + 1 timestamps, and from the pruning of a wait()
\* to its append at most calls_per_interval.
C20_HistoryBounded ==
    /\ Len(calls) <= calls_per_interval + 1
    /\ \A th \in Callers :
          pc[th] \in {"L36", "L37", "L38", "sleeping", "L39", "L39time",
                       "L39append"} =>
              Len(calls) <= calls_per_interval

\* Between two calls the list holds calls_per_interval + 1 timestamps, the
\* oldest of them expired.
C20_Witness ==
    /\ \A th \in Callers : pc[th] = "idle"
    /\ Len(calls) = calls_per_interval + 1
    /\ clock - calls[1] >= interval


-----------------------------------------------------------------------------
(* The Extensions tab and the GitHub token. *)

\* C21: apply_changes does not disable an extension the user did not
\* uncheck: every extension that is enabled in the config when
\* apply_changes runs, and whose row the search text keeps out of the
\* table, is in the value apply_changes writes to the config.
C21_HiddenStaysEnabled ==
    [][(apply_pc = "idle" /\ apply_pc' = "L651") =>
          \A ext \in Range(ParseExtensions(StoredValue(config_extensions)))
                        \cap Hidden(extensions_dir, search_text) :
              ext \in Range(ParseExtensions(
                             StoredValue(config_extensions')))]_vars

\* C22: once apply_changes has written a selection, a table refilled
\* because the search text or the sort order changed, with no reload of the
\* config in between, shows a row checked exactly when its extension is in
\* the selection last written to the config.
C22_RepopulateShowsWritten ==
    [][(/\ apply_result # "none"
        /\ apply_pc = "idle"
        /\ (search_text' # search_text \/ sort_by' # sort_by)) =>
          \A row \in DOMAIN extensions_table' :
              extensions_table'[row].checked
                  <=> extensions_table'[row].name
                          \in Range(ParseExtensions(
                                       StoredValue(config_extensions)))]_vars

\* C23: encryption_key is not None only when it is a key that decrypts the
\* stored encrypted_token, so that after a wrong password the next
\* get_github_token asks for the password again.
C23_KeyDecryptsStoredToken ==
    encryption_key # NoKey => Decrypts(encryption_key, encrypted_token)

\* C24: from the moment apply_changes reaches `spicetify apply` the file
\* and the config hold the selection read from the table, and still hold
\* it when the command has failed or was not found; the Apply button is
\* disabled while the command runs and enabled whenever apply_changes is
\* not in progress, however the command ended.
C24_WrittenBeforeRunNoRollback ==
    /\ apply_pc \in {"L651", "running", "finally"} =>
          /\ apply_result # "none"
          /\ config_extensions = <<Join(Selected(extensions_table))>>
          /\ file_extensions = <<Join(Selected(extensions_table))>>
    /\ apply_pc = "running" => ~apply_button
    /\ apply_pc = "finally" => apply_result \in Outcomes
    /\ apply_pc = "idle" =>
          /\ apply_result \in {"none", "returned", "failed"}
          /\ apply_button

\* apply_changes has ended after a failed or missing command: the button is
\* enabled and the file holds the non-empty selection that was written,
\* which differs from what was enabled when the config was loaded.
C24_Witness ==
    /\ apply_pc = "idle"
    /\ apply_result = "failed"
    /\ apply_button
    /\ Selected(extensions_table) # <<>>
    /\ Range(Selected(extensions_table)) # Range(extensions)
    /\ config_extensions = <<Join(Selected(extensions_table))>>
    /\ file_extensions = <<Join(Selected(extensions_table))>>

=============================================================================
